---- MODULE Spec2Model ----
(***************************************************************************)
(* The Sudoku solver of src/src/App.jsx: isValid, solveBoard, solveSudoku.  *)
(*                                                                         *)
(* JavaScript values.  A cell holds a number; the model integer v stands    *)
(* for the JavaScript number v / Denom, so that a non-integer such as 2.5   *)
(* (the model integer 5) is a value the range check can meet.  Undefined    *)
(* is what an index past the end of an array reads.  Arrays are objects:    *)
(* heap maps an address to the array's content, and a grid is a sequence    *)
(* of references, so that copying and aliasing are different things.        *)
(* Array indices are the code's (0-based); Get translates them.             *)
(***************************************************************************)
EXTENDS Integers, Sequences, FiniteSets, TLC

N == 9
BoxSize == 3
Denom == 2
Undefined == -1001

\* A reference held by the outer array: an address (>= 1) or one of these.
Null == 0
Hole == -1
NumberPrim == -2

Num(d) == d * Denom

Addr == 1..(2 * N)
IsObject(ref) == ref >= 1

\* arr[i] in JavaScript, i counted from 0.
Get(arr, i) == IF i >= 0 /\ i < Len(arr) THEN arr[i + 1] ELSE Undefined

\* board[r][c], for a row r that is an array.
Cell(h, b, r, c) == Get(h[Get(b, r)], c)

\* board[r][c] = v.
WriteCell(h, b, r, c, v) == [h EXCEPT ![b[r + 1]][c + 1] = v]

\* The grid a sequence of references denotes: its rows' contents.
Content(h, b) == [i \in 1..Len(b) |-> IF IsObject(b[i]) THEN h[b[i]] ELSE <<>>]

(***************************************************************************)
(* isValid (lines 100-116).  "T" / "F" are its return values; "throw" is    *)
(* the TypeError of reading board[index][col] when board[index] is          *)
(* undefined.                                                              *)
(***************************************************************************)
\* Lines 106-115.  Every board[r] it reads was read by the loop before it.
BoxCheck(h, b, row, col, value) ==
  LET boxRow == (row \div BoxSize) * BoxSize
      boxCol == (col \div BoxSize) * BoxSize
  IN  IF \E r \in boxRow..(boxRow + BoxSize - 1),
            c \in boxCol..(boxCol + BoxSize - 1) : Cell(h, b, r, c) = value
        THEN "F"
      ELSE "T"

\* Lines 101-104, from index on.

RECURSIVE LineCheck(_, _, _, _, _, _)
LineCheck(h, b, row, col, value, index) ==
  IF index >= N THEN BoxCheck(h, b, row, col, value)
  ELSE IF Cell(h, b, row, index) = value THEN "F"
  ELSE IF ~IsObject(Get(b, index)) THEN "throw"
  ELSE IF Cell(h, b, index, col) = value THEN "F"
  ELSE LineCheck(h, b, row, col, value, index + 1)

isValid(h, b, row, col, value) == LineCheck(h, b, row, col, value, 0)

(***************************************************************************)
(* solveBoard's scan (lines 119-121): the first cell, in row-major order    *)
(* from (0,0), that holds 0; <<N, N>> when there is none.                   *)
(***************************************************************************)
FirstEmpty(h, b) ==
  LET RowsWithEmpty == {r \in 0..(N - 1) : \E c \in 0..(N - 1) : Cell(h, b, r, c) = 0}
  IN  IF RowsWithEmpty = {} THEN <<N, N>>
      ELSE LET r == CHOOSE x \in RowsWithEmpty : \A y \in RowsWithEmpty : x <= y
               c == CHOOSE x \in 0..(N - 1) :
                      /\ Cell(h, b, r, x) = 0
                      /\ \A y \in 0..(x - 1) : Cell(h, b, r, y) # 0
           IN  <<r, c>>

\* The candidates of lines 122: value = 1; value <= 9; value += 1.
FirstValue == Num(1)

\* value < 9 in place of value <= 9.
LastValueOffByOne == Num(8)
LastValue == Num(9)

\* The increment forgotten, and value += 2 in place of value += 1.
StuckValue(value) == value
SkipValue(value) == value + Num(2)
NextValue(value) == value + Num(1)

(***************************************************************************)
(* The pieces of solveSudoku's validation loop (lines 144-162).            *)
(***************************************************************************)
\* Line 155, and the validation without it.
ClearOmitted(h, b, row, col) == h
Clear(h, b, row, col) == WriteCell(h, b, row, col, 0)

\* Line 159.
Restore(h, b, row, col, value) == WriteCell(h, b, row, col, value)

\* Number.isFinite, and the test of line 151.
IsFinite(v) == v # Undefined

OutOfRange(value) == ~IsFinite(value) \/ value < Num(0) \/ value > Num(9)

\* Line 145.
RowShapeBad(h, b, row) ==
  ~IsObject(Get(b, row)) \/ Len(h[Get(b, row)]) # N

(***************************************************************************)
(* The results of solveSudoku.                                             *)
(***************************************************************************)
NoReturn == [value |-> FALSE, entry |-> <<>>, placed |-> FALSE]

NoResult == [kind |-> "none", solution |-> <<>>, error |-> ""]
Failure(kind, msg) == [kind |-> kind, solution |-> <<>>, error |-> msg]
Success(b) == [kind |-> "solution", solution |-> b, error |-> ""]
Thrown == [kind |-> "throw", solution |-> <<>>, error |-> ""]

RowsError == Failure("rows", "Puzzle must have 9 rows.")
RowError(row) ==
  Failure("row", "Row " \o ToString(row + 1) \o " must have 9 values.")
RangeError == Failure("range", "Values must be numbers 0-9.")
ConflictError == Failure("conflict", "Puzzle has conflicting values.")
UnsolvableError == Failure("unsolvable", "No solution found.")

(***************************************************************************)
(* The inputs: a solved grid with some of HoleCells emptied and each of     *)
(* EditCells kept or overwritten with one of EditVals; and the grids        *)
(* without emptied cells among them, with the outer array malformed in one  *)
(* way.                                                                    *)
(***************************************************************************)
MaxHoles == 4

BaseGrid ==
  << <<5, 3, 4, 6, 7, 8, 9, 1, 2>>,
     <<6, 7, 2, 1, 9, 5, 3, 4, 8>>,
     <<1, 9, 8, 3, 4, 2, 5, 6, 7>>,
     <<8, 5, 9, 7, 6, 1, 4, 2, 3>>,
     <<4, 2, 6, 8, 5, 3, 7, 9, 1>>,
     <<7, 1, 3, 9, 2, 4, 8, 5, 6>>,
     <<9, 6, 1, 5, 3, 7, 2, 8, 4>>,
     <<2, 8, 7, 4, 1, 9, 6, 3, 5>>,
     <<3, 4, 5, 2, 8, 6, 1, 7, 9>> >>

HoleCells == {<<0, 3>>, <<0, 4>>, <<0, 6>>, <<3, 3>>, <<3, 4>>, <<8, 5>>}
EditCells == {<<0, 5>>, <<3, 5>>}
Keep == Undefined
EditVals == {Keep, Num(0 - 1), Num(2) + 1, Num(6), Num(10)}
ShapeRows == {2}
RowKinds == {"short", "null", "hole", "number"}
Shapes ==
  {<<"ok", 0>>, <<"notArray", 0>>, <<"eightRows", 0>>}
    \cup (RowKinds \X ShapeRows)

InputCell(holes, edits, r, c) ==
  IF <<r, c>> \in holes THEN 0
  ELSE IF <<r, c>> \in EditCells /\ edits[<<r, c>>] # Keep THEN edits[<<r, c>>]
  ELSE Num(BaseGrid[r + 1][c + 1])

InputRow(holes, edits, shape, r) ==
  [c \in 1..(IF shape = <<"short", r>> THEN N - 1 ELSE N)
     |-> InputCell(holes, edits, r, c - 1)]

InputRef(shape, r) ==
  IF shape = <<"null", r>> THEN Null
  ELSE IF shape = <<"hole", r>> THEN Hole
  ELSE IF shape = <<"number", r>> THEN NumberPrim
  ELSE r + 1

InputHeap(holes, edits, shape) ==
  [a \in Addr |->
     IF a <= N /\ InputRef(shape, a - 1) = a
       THEN InputRow(holes, edits, shape, a - 1)
     ELSE <<>>]

InputRows(shape) ==
  [i \in 1..(IF shape[1] = "eightRows" THEN N - 1 ELSE N) |-> InputRef(shape, i - 1)]

VARIABLES
  rowsIsArray,  \* Array.isArray(rows)
  rows,         \* the caller's outer array: a sequence of references
  heap,         \* the row arrays, by address
  heap0,        \* heap as it was when solveSudoku was called
  board,        \* solveSudoku's board (line 142): a sequence of references
  pc,           \* where the call is
  row,          \* the row of the validation loop (line 144)
  col,          \* the column of the validation loop (line 149)
  stack,        \* the frames of solveBoard, innermost first
  ret,          \* the solveBoard call that just returned: its value, the
                \* board's content when it was entered, whether it placed
  result        \* what solveSudoku returned

vars ==
  <<rowsIsArray, rows, heap, heap0, board, pc, row, col, stack, ret, result>>

\* Before the call: no puzzle has been passed yet.
Init ==
  /\ rowsIsArray = FALSE
  /\ rows = <<>>
  /\ heap = [a \in Addr |-> <<>>]
  /\ heap0 = heap
  /\ board = <<>>
  /\ pc = "idle"
  /\ row = 0
  /\ col = 0
  /\ stack = <<>>
  /\ ret = NoReturn
  /\ result = NoResult

\* handleSolve (lines 255-257) calls solveSudoku(activePuzzle.rows).
handleSolve ==
  /\ pc = "idle"
  /\ \E holes \in {S \in SUBSET HoleCells : Cardinality(S) <= MaxHoles},
        edits \in [EditCells -> EditVals],
        shape \in Shapes :
       /\ shape[1] = "ok" \/ holes = {}
       /\ rowsIsArray' = (shape[1] # "notArray")
       /\ rows' = InputRows(shape)
       /\ heap' = InputHeap(holes, edits, shape)
       /\ heap0' = heap'
  /\ pc' = "start"
  /\ UNCHANGED <<board, row, col, stack, ret, result>>

(***************************************************************************)
(* rows.map((row) => row.slice()) (line 142): every row that is there is    *)
(* copied to a fresh array; map skips a hole and leaves a hole.            *)
(***************************************************************************)
\* rows.map((row) => row): the rows shared, not copied.
AliasRef(i, ref) == ref
CopyRef(i, ref) == IF IsObject(ref) THEN N + i ELSE ref

SliceThrows(rs) == \E i \in 1..Len(rs) : rs[i] \in {Null, NumberPrim}

Finish(r) ==
  /\ pc' = "done"
  /\ result' = r

\* Lines 138-142.
Enter ==
  /\ pc = "start"
  /\ IF ~rowsIsArray \/ Len(rows) # N
       THEN /\ Finish(RowsError)
            /\ UNCHANGED <<heap, board>>
     ELSE IF SliceThrows(rows)
       THEN /\ Finish(Thrown)
            /\ UNCHANGED <<heap, board>>
     ELSE /\ board' = [i \in 1..Len(rows) |-> CopyRef(i, rows[i])]
          /\ heap' = [a \in Addr |->
                        IF \E i \in 1..Len(rows) : IsObject(rows[i]) /\ board'[i] = a
                          THEN heap[rows[CHOOSE i \in 1..Len(rows) :
                                           IsObject(rows[i]) /\ board'[i] = a]]
                        ELSE heap[a]]
          /\ pc' = "row"
          /\ UNCHANGED result
  /\ UNCHANGED <<rowsIsArray, rows, heap0, row, col, stack, ret>>

\* Line 145, at the start of each turn of the loop of line 144.
ValidateRow ==
  /\ pc = "row"
  /\ IF RowShapeBad(heap, board, row)
       THEN Finish(RowError(row))
     ELSE pc' = "cell" /\ UNCHANGED result
  /\ UNCHANGED <<rowsIsArray, rows, heap, heap0, board, row, col, stack, ret>>

\* The loops' increments (lines 149 and 144), then line 164.
NextCell ==
  IF col + 1 < N
    THEN col' = col + 1 /\ UNCHANGED <<row, pc>>
  ELSE /\ col' = 0
       /\ row' = row + 1
       /\ pc' = IF row + 1 < N THEN "row" ELSE "call"

\* Lines 150-160: one turn of the loop of line 149.
ValidateCell ==
  /\ pc = "cell"
  /\ \E value \in {Cell(heap, board, row, col)} :
       IF OutOfRange(value)
         THEN Finish(RangeError) /\ UNCHANGED <<heap, row, col>>
       ELSE IF value = 0
         THEN NextCell /\ UNCHANGED <<heap, result>>
       ELSE \E cleared \in {Clear(heap, board, row, col)} :
              \E ok \in {isValid(cleared, board, row, col, value)} :
                IF ok = "throw"
                  THEN heap' = cleared /\ Finish(Thrown) /\ UNCHANGED <<row, col>>
                ELSE IF ok = "F"
                  THEN heap' = cleared /\ Finish(ConflictError) /\ UNCHANGED <<row, col>>
                ELSE /\ heap' = Restore(cleared, board, row, col, value)
                     /\ NextCell
                     /\ UNCHANGED result
  /\ UNCHANGED <<rowsIsArray, rows, heap0, board, stack, ret>>

\* solveBoard is entered (lines 164 and 125) and scans for an empty cell
\* (lines 119-121); with none it returns true (line 134).
Call ==
  /\ pc = "call"
  /\ \E rc \in {FirstEmpty(heap, board)}, entry \in {Content(heap, board)} :
         IF rc = <<N, N>>
           THEN /\ pc' = "returned"
                /\ ret' = [value |-> TRUE, entry |-> entry, placed |-> FALSE]
                /\ UNCHANGED stack
         ELSE /\ stack' = <<[row |-> rc[1], col |-> rc[2], value |-> FirstValue,
                             entry |-> entry, placed |-> FALSE]>> \o stack
              /\ pc' = "try"
              /\ UNCHANGED ret
  /\ UNCHANGED <<rowsIsArray, rows, heap, heap0, board, row, col, result>>

\* Lines 122-124: the next candidate at the innermost frame's cell.
Try ==
  /\ pc = "try"
  /\ \E f \in {Head(stack)} :
         /\ f.value <= LastValue
         /\ IF isValid(heap, board, f.row, f.col, f.value) = "T"
              THEN /\ heap' = WriteCell(heap, board, f.row, f.col, f.value)
                   /\ pc' = "call"
                   /\ stack' = <<[f EXCEPT !.placed = TRUE]>> \o Tail(stack)
            ELSE /\ stack' = <<[f EXCEPT !.value = NextValue(f.value)]>> \o Tail(stack)
                 /\ UNCHANGED <<heap, pc>>
  /\ UNCHANGED <<rowsIsArray, rows, heap0, board, row, col, ret, result>>

\* Line 129: all candidates tried, solveBoard returns false.
Exhausted ==
  /\ pc = "try"
  /\ Head(stack).value > LastValue
  /\ pc' = "returned"
  /\ ret' = [value |-> FALSE, entry |-> Head(stack).entry,
              placed |-> Head(stack).placed]
  /\ stack' = Tail(stack)
  /\ UNCHANGED <<rowsIsArray, rows, heap, heap0, board, row, col, result>>

\* Line 126, and the backtracking without it.
KeepPlacement(h, b, r, c) == h
Undo(h, b, r, c) == WriteCell(h, b, r, c, 0)

\* Lines 125-126: the caller gets the recursive call's value.

Resume ==
  /\ pc = "returned"
  /\ stack # <<>>
  /\ \E f \in {Head(stack)} :
         IF ret.value
           THEN /\ ret' = [value |-> TRUE, entry |-> f.entry, placed |-> f.placed]
                /\ stack' = Tail(stack)
                /\ UNCHANGED <<heap, pc>>
         ELSE /\ heap' = Undo(heap, board, f.row, f.col)
              /\ stack' = <<[f EXCEPT !.value = NextValue(f.value)]>> \o Tail(stack)
              /\ pc' = "try"
              /\ UNCHANGED ret
  /\ UNCHANGED <<rowsIsArray, rows, heap0, board, row, col, result>>

\* Lines 164-168.
Return ==
  /\ pc = "returned"
  /\ stack = <<>>
  /\ Finish(IF ret.value THEN Success(board) ELSE UnsolvableError)
  /\ UNCHANGED <<rowsIsArray, rows, heap, heap0, board, row, col, stack, ret>>

\* The steps of one call of solveSudoku, which runs to completion.
Step == Enter \/ ValidateRow \/ ValidateCell \/ Call \/ Try \/ Exhausted \/ Resume \/ Return

Next == handleSolve \/ Step

Spec == Init /\ [][Next]_vars

\* The call is synchronous: once entered, it keeps running.
LiveSpec == Spec /\ WF_vars(Step)

(***************************************************************************)
(* What the claims speak of: the input as the caller passed it, and the     *)
(* grid a result holds.                                                    *)
(***************************************************************************)
Cells == (0..(N - 1)) \X (0..(N - 1))
Digits == {Num(d) : d \in 1..9}
Done == pc = "done"

\* The input is an array whose elements are all arrays.
InputIsGrid == rowsIsArray /\ \A i \in 1..Len(rows) : IsObject(rows[i])
NineRows == InputIsGrid /\ Len(rows) = N
NineByNine == NineRows /\ \A i \in 1..N : Len(heap0[rows[i]]) = N

\* The input's cell, for an input that is a grid.
In(rc) == Get(heap0[Get(rows, rc[1])], rc[2])

IsDigitOrZero(v) == \E d \in 0..9 : v = Num(d)
WellFormed == NineByNine /\ \A rc \in Cells : IsDigitOrZero(In(rc))

SameUnit(a, b) ==
  \/ a[1] = b[1]
  \/ a[2] = b[2]
  \/ (a[1] \div BoxSize = b[1] \div BoxSize /\ a[2] \div BoxSize = b[2] \div BoxSize)

\* Two distinct cells hold the same non-zero value and share a unit.
PairConflict ==
  \E a \in Cells : In(a) # 0 /\
    \E b \in Cells : a # b /\ In(a) = In(b) /\ SameUnit(a, b)

\* Every row, column and box of G (a function on Cells) is a permutation
\* of the digits.
IsSudoku(G) ==
  /\ \A r \in 0..(N - 1) : {G[<<r, c>>] : c \in 0..(N - 1)} = Digits
  /\ \A c \in 0..(N - 1) : {G[<<r, c>>] : r \in 0..(N - 1)} = Digits
  /\ \A br \in 0..(BoxSize - 1), bc \in 0..(BoxSize - 1) :
       {G[<<BoxSize * br + i, BoxSize * bc + j>>] :
          i \in 0..(BoxSize - 1), j \in 0..(BoxSize - 1)} = Digits

\* No row, column or box of G (a function on Cells) holds a value twice.
NoDuplicate(G) ==
  \A a \in Cells, b \in Cells : (a # b /\ SameUnit(a, b)) => G[a] # G[b]

\* The completions of a 9 x 9 input: the assignments of digits to its empty
\* cells that leave no row, column or box with a value twice.  Only digits
\* no filled cell of the same unit holds are enumerated; no other can belong
\* to a completion.
Empties == {rc \in Cells : In(rc) = 0}
Allowed(rc) ==
  Digits \ {In(o) : o \in {x \in Cells : x # rc /\ SameUnit(x, rc)}}

RECURSIVE Fillings(_)
Fillings(S) ==
  IF S = {} THEN {<<>>}
  ELSE LET rc == CHOOSE x \in S : TRUE
       IN  {(rc :> d) @@ f : d \in Allowed(rc), f \in Fillings(S \ {rc})}

Filled(f) == [rc \in Cells |-> IF In(rc) = 0 THEN f[rc] ELSE In(rc)]
Completions == {f \in Fillings(Empties) : NoDuplicate(Filled(f))}

\* The grid solveSudoku returned, as a function on Cells.
Solution == [rc \in Cells |-> Cell(heap, result.solution, rc[1], rc[2])]

RowMajor(rc) == rc[1] * N + rc[2]

\* The first empty cell, in row-major order, where f and g differ.
FirstDiff(f, g) ==
  CHOOSE rc \in DOMAIN f :
    /\ f[rc] # g[rc]
    /\ \A o \in DOMAIN f : RowMajor(o) < RowMajor(rc) => f[o] = g[o]

(***************************************************************************)
(* The claims.                                                             *)
(***************************************************************************)
Preserved == \A rc \in Cells : In(rc) # 0 => Solution[rc] = In(rc)

\* C1: whenever solveSudoku returns a solution, the returned grid has no
\* zero, each of its rows, columns and boxes is a permutation of 1..9, and
\* every cell that was non-zero in the input holds the same value.
C1_SolutionIsSudoku ==
  (Done /\ result.kind = "solution") => (IsSudoku(Solution) /\ Preserved)

\* C1 for the inputs that are 9 x 9 grids of integers 0..9: there it holds.
C1_ForWellFormedInputs ==
  (Done /\ result.kind = "solution" /\ WellFormed)
    => (IsSudoku(Solution) /\ Preserved)

C1_WellFormedSolved ==
  Done /\ result.kind = "solution" /\ WellFormed /\ ret.placed

\* C2: for a well-formed input without conflicts, solveSudoku returns the
\* unsolvable error exactly when the input has no completion, and a
\* solution when it has one.
C2_UnsolvableIffNoCompletion ==
  (Done /\ WellFormed /\ ~PairConflict)
    => /\ (result = UnsolvableError) <=> (Completions = {})
       /\ (Completions # {}) => (result.kind = "solution")

C2_UnsolvableReached ==
  /\ Done /\ WellFormed /\ ~PairConflict
  /\ Completions = {} /\ result = UnsolvableError /\ ret.placed

\* C3: for a well-formed input, solveSudoku returns the conflict error
\* exactly when two distinct cells of one row, column or box hold the same
\* non-zero value; and before each cell is checked every cell cleared
\* earlier has been restored, the board being the input again.
C3_ConflictIffPair ==
  /\ (Done /\ WellFormed) => ((result = ConflictError) <=> PairConflict)
  /\ (pc \in {"row", "cell"}) => (Content(heap, board) = Content(heap0, rows))

C3_ConflictReached ==
  Done /\ WellFormed /\ PairConflict /\ result = ConflictError

\* C4: the checks run in order over the whole grid: a 9-row grid with a row
\* of the wrong length gets the shape error naming that row, a 9 x 9 grid
\* with an out-of-range value gets the range error, and the conflict error
\* comes only when the shape and range checks pass for every cell.
BadRows == {r \in 0..(N - 1) : Len(heap0[rows[r + 1]]) # N}
C4_ChecksInOrder ==
  (Done /\ NineRows)
    => /\ (BadRows # {}) => (\E r \in BadRows : result = RowError(r))
       /\ (NineByNine /\ \E rc \in Cells : OutOfRange(In(rc)))
            => (result = RangeError)
       /\ (result = ConflictError)
            => (NineByNine /\ \A rc \in Cells : ~OutOfRange(In(rc)))

\* C5: a 9 x 9 input without conflicts in which some cell is not a finite
\* integer in 0..9 gets the range error.
C5_NonIntegerRejected ==
  (Done /\ NineByNine /\ ~PairConflict /\ \E rc \in Cells : ~IsDigitOrZero(In(rc)))
    => (result = RangeError)

\* C6: every call returns a result in which exactly one of solution and
\* error is there; none ends in an exception.
C6_AlwaysReturns ==
  Done => /\ result.kind # "throw"
          /\ (result.solution # <<>>) # (result.error # "")

\* C7: when the call has ended, every row of the caller's grid holds what
\* it held before the call, and a returned solution shares no row with the
\* input.
C7_InputNotMutated ==
  Done => /\ \A i \in 1..Len(rows) :
               IsObject(rows[i]) => heap[rows[i]] = heap0[rows[i]]
          /\ (result.kind = "solution") =>
               \A i \in 1..Len(result.solution), j \in 1..Len(rows) :
                 result.solution[i] # rows[j]

C7_SolvedWithPlacements ==
  Done /\ result.kind = "solution" /\ ret.placed /\ Empties # {}

\* C8: for a 9 x 9 input that passes the range check, has no conflict and
\* has a completion, the returned grid is the completion that is first in
\* lexicographic order of the empty cells read row-major.
InRange == NineByNine /\ \A rc \in Cells : ~OutOfRange(In(rc))
C8_LexFirst ==
  (Done /\ InRange /\ ~PairConflict /\ Completions # {})
    => /\ result.kind = "solution"
       /\ LET s == [rc \in Empties |-> Solution[rc]]
          IN  /\ s \in Completions
              /\ Solution = Filled(s)
              /\ \A g \in Completions \ {s} :
                   s[FirstDiff(s, g)] < g[FirstDiff(s, g)]

C8_SeveralCompletions ==
  /\ Done /\ WellFormed /\ ~PairConflict
  /\ Cardinality(Completions) >= 2 /\ result.kind = "solution"

\* C9: when a solveBoard call returns false the board is what it was when
\* the call was entered; each candidate is tried on that board; and with
\* the unsolvable error the board is the input.
C9_BacktrackRestores ==
  /\ (pc = "returned" /\ ~ret.value) => (Content(heap, board) = ret.entry)
  /\ (pc = "try") => (Content(heap, board) = Head(stack).entry)
  /\ (Done /\ result = UnsolvableError)
       => (Content(heap, board) = Content(heap0, rows))

C9_FailedAfterPlacing ==
  pc = "returned" /\ ~ret.value /\ ret.placed /\ stack # <<>>

\* C10: every call on a grid ends, with one of the five outcomes.
Outcomes == {"solution", "rows", "row", "range", "conflict", "unsolvable"}
C10_Terminates ==
  (pc = "start") ~> (Done /\ (InputIsGrid => result.kind \in Outcomes))

C10_SearchExhausted ==
  Done /\ InputIsGrid /\ result = UnsolvableError /\ ret.placed /\ Empties # {}

====
